---------------------------- MODULE Spec2Model ----------------------------
(***************************************************************************)
(* A model of the Anki card type generator (src/add-pinyin.py): the card   *)
(* type heuristics, the content generator and the review loop of           *)
(* AnkiCardGUI (load, accept, next, previous, skip, type selection,        *)
(* preview, export).                                                       *)
(*                                                                         *)
(* A Python str is a sequence of characters.  A character is a TLA+ string *)
(* token: an ASCII character stands for itself, any other character is     *)
(* written by its code point ("U7238" is U+7238).  A fixed ASCII text      *)
(* whose characters the program never inspects (a hint of the prompt       *)
(* table) is held as one token.                                            *)
(***************************************************************************)
EXTENDS Integers, Sequences, FiniteSets, TLC

VARIABLES
    heap,               \* the AnkiNote objects alive, by address 1..Len(heap)
    input_notes,        \* self.input_notes: a list of addresses
    output_notes,       \* self.output_notes: a list of addresses
    current_note_index, \* self.current_note_index, 0-based
    current_note,       \* self.current_note: an address, or None
    card_type_vars,     \* self.card_type_vars: the five checkboxes
    pinyin_entry,       \* the text of self.pinyin_entry
    prompt_entry,       \* the text of self.prompt_entry
    preview,            \* the notes that self.edit_text displays: one or none
    input_file,         \* the lines of the file last loaded
    loaded_from,        \* line_num of the line each input note was parsed from
    output_file,        \* the lines write_output_file wrote since the last load
    toggles,            \* the number of checkbox clicks so far
    edits,              \* the number of edits of the two entries so far
    loads,              \* the number of files selected so far
    last_op,            \* the handler that ran last
    the_note,           \* the AnkiNote a function is applied to on its own
    applied,            \* the function applied to the_note
    fn_args,            \* the arguments of the functions of the other scripts
    fn_result,          \* what each of these functions did with fn_args
    state_manager,      \* main.py, StateManager: df and current_index
    approval_gui,       \* main.py, ImageApprovalGUI: image list, index, buttons
    fetch_threads,      \* main.py: where the fetch thread of each row stands
    after_queue         \* main.py: update_image_display calls master.after queued

vars == <<heap, input_notes, output_notes, current_note_index, current_note,
          card_type_vars, pinyin_entry, prompt_entry, preview, input_file,
          loaded_from, output_file, toggles, edits, loads, last_op, the_note,
          applied, fn_args, fn_result, state_manager, approval_gui,
          fetch_threads, after_queue>>

\* the variables of the image-approval pipeline of main.py
img_vars == <<state_manager, approval_gui, fetch_threads, after_queue>>

gui_vars == <<heap, input_notes, output_notes, current_note_index, current_note,
              card_type_vars, pinyin_entry, prompt_entry, preview, input_file,
              loaded_from, output_file, toggles, edits, loads, last_op>>

-----------------------------------------------------------------------------
(* Characters *)

TAB == "\t"
NL == "\n"
SP == " "
US == "_"

zhe == "U8FD9"      \* U+8FD9, first character of the prefix of line 154
shi == "U662F"      \* U+662F, a function word, a key of the prompt table
dan == "U4F46"      \* U+4F46, a function word; with shi a grammar pattern
ba == "U7238"       \* U+7238, father
wo == "U6211"       \* U+6211, I
jia == "U5BB6"      \* U+5BB6, home
zai == "U5728"      \* U+5728, at, a function word, a key of the prompt table
shu == "U4E66"      \* U+4E66, book, a concrete noun indicator
COMMA == "UFF0C"    \* U+FF0C, fullwidth comma
DUN == "U3001"      \* U+3001, ideographic comma
JU == "U3002"       \* U+3002, ideographic full stop

\* str.isspace() for the characters of the model
IsSpace(c) == c \in {SP, TAB, NL}

-----------------------------------------------------------------------------
(* Python str operations *)

\* s[i:] for a 1-based i
From(s, i) == SubSeq(s, i, Len(s))

\* s.startswith(p)
StartsWith(s, p) == Len(p) <= Len(s) /\ SubSeq(s, 1, Len(p)) = p

\* the 1-based positions where w occurs in s
Occurrences(w, s) ==
    {i \in 1..(Len(s) - Len(w) + 1) : SubSeq(s, i, i + Len(w) - 1) = w}

\* w in s
In(w, s) == Occurrences(w, s) # {}

\* s.find(w), 1-based; only used when w in s
Find(w, s) == CHOOSE i \in Occurrences(w, s) : \A j \in Occurrences(w, s) : i <= j

\* s.replace(w, r, 1)
ReplaceFirst(s, w, r) ==
    IF In(w, s)
    THEN SubSeq(s, 1, Find(w, s) - 1) \o r \o From(s, Find(w, s) + Len(w))
    ELSE s

\* s.count(w) for a non-empty w: occurrences that do not overlap, from the left
RECURSIVE Count(_, _)
Count(s, w) ==
    IF In(w, s) THEN 1 + Count(From(s, Find(w, s) + Len(w)), w) ELSE 0

RECURSIVE LStrip(_)
LStrip(s) == IF s # <<>> /\ IsSpace(Head(s)) THEN LStrip(Tail(s)) ELSE s

RECURSIVE RStrip(_)
RStrip(s) ==
    IF s # <<>> /\ IsSpace(s[Len(s)]) THEN RStrip(SubSeq(s, 1, Len(s) - 1)) ELSE s

\* s.strip()
Strip(s) == RStrip(LStrip(s))

\* s.split(sep) for a single character sep: never an empty list
RECURSIVE Split(_, _)
Split(s, sep) ==
    IF \E i \in 1..Len(s) : s[i] = sep
    THEN LET i == CHOOSE k \in 1..Len(s) :
                      s[k] = sep /\ \A j \in 1..(k - 1) : s[j] # sep
         IN  <<SubSeq(s, 1, i - 1)>> \o Split(From(s, i + 1), sep)
    ELSE <<s>>

\* sep.join(parts)
RECURSIVE Join(_, _)
Join(parts, sep) ==
    IF parts = <<>> THEN <<>>
    ELSE IF Len(parts) = 1 THEN parts[1]
    ELSE parts[1] \o sep \o Join(Tail(parts), sep)

\* [i for i in range(1, 6) if i in S], a sorted list
RECURSIVE SortedList(_)
SortedList(S) ==
    IF S = {} THEN <<>>
    ELSE LET m == CHOOSE x \in S : \A y \in S : x <= y
         IN  <<m>> \o SortedList(S \ {m})

\* the set of the elements of a list
Elems(l) == {l[i] : i \in 1..Len(l)}

-----------------------------------------------------------------------------
(* AnkiNote *)

\* AnkiNote(word=..., ..., image=...): the other fields take their defaults
AnkiNote(f) ==
    [word |-> f[1], definitions_1 |-> f[2], definitions_2 |-> f[3],
     example_sentence |-> f[4], sentence_translation |-> f[5],
     word_audio |-> f[6], sentence_audio |-> f[7], image |-> f[8],
     cloze_sentence |-> <<>>, cloze_sentence_pinyin |-> <<>>,
     scrambled_sentence |-> <<>>, scrambled_sentence_pinyin |-> <<>>,
     reconstructed_sentence |-> <<>>, reconstructed_sentence_pinyin |-> <<>>,
     prompt |-> <<>>, word_pinyin |-> <<>>, example_sentence_pinyin |-> <<>>,
     selected_card_types |-> <<>>]

\* the 8 original fields of a note, in input order
OriginalFields(n) ==
    <<n.word, n.definitions_1, n.definitions_2, n.example_sentence,
      n.sentence_translation, n.word_audio, n.sentence_audio, n.image>>

-----------------------------------------------------------------------------
(* CardTypeHeuristics *)

FUNCTION_WORDS ==
    { <<"U7684">>, <<"U4E86">>, <<"U5728">>, <<"U662F">>,
      <<"U6709">>, <<"U548C">>, <<"U4E0E">>, <<"U6216">>,
      <<"U4F46">>, <<"U800C">>, <<"U56E0", "U4E3A">>, <<"U6240", "U4EE5">>,
      <<"U5982", "U679C">>, <<"U867D", "U7136">>, <<"U4F46", "U662F">>,
      <<"U7136", "U800C">>, <<"U4E0D", "U8FC7">>, <<"U53EF", "U662F">>,
      <<"U5374">>, <<"U8FD8", "U662F">>, <<"U5C31", "U662F">>,
      <<"U53EA", "U662F">>, <<"U90A3", "U4E48">>, <<"U8FD9", "U4E48">>,
      <<"U600E", "U4E48">>, <<"U4E3A", "U4EC0", "U4E48">>, <<"U4EC0", "U4E48">>,
      <<"U54EA", "U91CC">>, <<"U54EA", "U513F">>, <<"U600E", "U6837">>,
      <<"U591A", "U5C11">> }

CONCRETE_NOUN_INDICATORS ==
    { <<"U4E66">>, <<"U8F66">>, <<"U623F">>, <<"U684C">>, <<"U6905">>, <<"U95E8">>,
      <<"U7A97">>, <<"U82B1">>, <<"U6811">>, <<"U6C34">>, <<"U706B">>, <<"U5C71">>,
      <<"U6CB3">>, <<"U6D77">>, <<"U5929">>, <<"U5730">>, <<"U4EBA">>, <<"U72D7">>,
      <<"U732B">>, <<"U9E1F">>, <<"U9C7C">>, <<"U7C73">>, <<"U83DC">>, <<"U8089">>,
      <<"U86CB">>, <<"U5976">> }

GRAMMAR_PATTERNS ==
    { <<"U56E0", "U4E3A">>, <<"U6240", "U4EE5">>, <<"U867D", "U7136">>,
      <<"U4F46", "U662F">>, <<"U5982", "U679C">>,
      <<"U5C31">>, <<"U624D">>, <<"U90FD">>, <<"U8FD8">>, <<"U4E5F">> }

_is_concrete_noun(word) == Len(word) = 1 /\ word \notin FUNCTION_WORDS

\* _has_grammar_pattern that asks for every pattern instead of any
_has_grammar_pattern_every(sentence) ==
    \A pattern \in GRAMMAR_PATTERNS : In(pattern, sentence)

\* _has_complex_word_order with the length test of line 146 as >= 10
_has_complex_word_order_from_10(sentence) ==
    Len(sentence) >= 10 /\ (In(<<COMMA>>, sentence) \/ In(<<DUN>>, sentence))

_has_grammar_pattern(sentence) == \E pattern \in GRAMMAR_PATTERNS : In(pattern, sentence)

_has_complex_word_order(sentence) ==
    Len(sentence) > 10 /\ (In(<<COMMA>>, sentence) \/ In(<<DUN>>, sentence))

_is_memorable_sentence(sentence) ==
    /\ Len(sentence) <= 15
    /\ Count(sentence, <<COMMA>>) <= 1
    /\ ~StartsWith(sentence, <<zhe, shi>>)

\* DefaultSuggestion without the fallback of lines 125-126
DefaultSuggestionDropped(suggestions) == suggestions

\* the default of lines 124-126
DefaultSuggestion(suggestions) == IF suggestions = <<>> THEN <<2>> ELSE suggestions

suggest_card_types(note) ==
    LET word == Strip(note.word)
        sentence == Strip(note.example_sentence)
        s1 == IF \/ note.image # <<>>
                 \/ word \in CONCRETE_NOUN_INDICATORS
                 \/ _is_concrete_noun(word)
              THEN <<1>> ELSE <<>>
        s2 == IF word \in FUNCTION_WORDS THEN <<2>> ELSE <<>>
        s3 == IF \/ _has_grammar_pattern(sentence)
                 \/ (Len(word) > 1 /\ word \notin FUNCTION_WORDS)
              THEN <<3>> ELSE <<>>
        s4 == IF \/ word \in FUNCTION_WORDS
                 \/ _has_complex_word_order(sentence)
              THEN <<4>> ELSE <<>>
        s5 == IF Len(sentence) <= 15 /\ _is_memorable_sentence(sentence)
              THEN <<5>> ELSE <<>>
    IN  DefaultSuggestion(s1 \o s2 \o s3 \o s4 \o s5)

-----------------------------------------------------------------------------
(* ContentGenerator *)

\* the Han characters of the model's inputs: pypinyin romanizes these
HanChars == {zhe, shi, dan, ba, wo, jia, zai, shu}

\* pypinyin's TONE style reading of one Han character
\* (U+00E0 a-grave, U+00E8 e-grave, U+00EC i-grave, U+01D2 o-caron,
\*  U+0101 a-macron, U+016B u-macron)
Syllable(c) ==
    CASE c = zhe -> <<"z", "h", "U00E8">>
      [] c = shi -> <<"s", "h", "U00EC">>
      [] c = dan -> <<"d", "U00E0", "n">>
      [] c = ba -> <<"b", "U00E0">>
      [] c = wo -> <<"w", "U01D2">>
      [] c = jia -> <<"j", "i", "U0101">>
      [] c = zai -> <<"z", "U00E0", "i">>
      [] c = shu -> <<"s", "h", "U016B">>

\* the length of the maximal run of non-Han characters that starts text
RECURSIVE RunLen(_)
RunLen(text) ==
    IF text = <<>> \/ Head(text) \in HanChars THEN 0 ELSE 1 + RunLen(Tail(text))

\* pypinyin.pinyin(text, style=TONE, heteronym=False), each item's [0]:
\* one reading per Han character, each run of other characters kept whole
RECURSIVE pinyin_list(_)
pinyin_list(text) ==
    IF text = <<>> THEN <<>>
    ELSE IF Head(text) \in HanChars
         THEN <<Syllable(Head(text))>> \o pinyin_list(Tail(text))
         ELSE <<SubSeq(text, 1, RunLen(text))>>
                  \o pinyin_list(From(text, RunLen(text) + 1))

generate_pinyin(text) == Join(pinyin_list(text), <<SP>>)

BLANK == <<US, US, US>>

\* generate_cloze_sentence that puts the blank in front of the word and
\* keeps the word
generate_cloze_sentence_keeping(sentence, word) ==
    IF In(word, sentence)
    THEN SubSeq(sentence, 1, Find(word, sentence) - 1) \o BLANK
             \o From(sentence, Find(word, sentence))
    ELSE sentence

generate_cloze_sentence(sentence, word) ==
    IF In(word, sentence) THEN ReplaceFirst(sentence, word, BLANK) ELSE sentence

generate_scrambled_sentence(sentence, word) ==
    IF In(word, sentence) THEN ReplaceFirst(sentence, word, BLANK) ELSE sentence

prompts ==
    (<<"U7684">> :> <<"Possessive particle, shows ownership or description">>)
    @@ (<<"U4E86">> :> <<"Aspect particle, indicates completed action">>)
    @@ (<<"U5728">> :> <<"Preposition indicating location or ongoing action">>)
    @@ (<<"U662F">> :> <<"Copula verb 'to be'">>)
    @@ (<<"U6709">> :> <<"Verb 'to have' or existence">>)
    @@ (<<"U548C">> :> <<"Conjunction meaning 'and'">>)
    @@ (<<"U4E0D">> :> <<"Negation particle">>)
    @@ (<<"U5F88">> :> <<"Adverb meaning 'very'">>)
    @@ (<<"U90FD">> :> <<"Adverb meaning 'all' or 'both'">>)
    @@ (<<"U4E5F">> :> <<"Adverb meaning 'also' or 'too'">>)

generate_prompt(word, sentence) ==
    IF word \in DOMAIN prompts THEN prompts[word]
    ELSE IF Len(word) = 1
         THEN <<"Single character word, pay attention to usage context">>
    ELSE IF Len(word) = 2
         THEN <<"Two-character word, common in modern Chinese">>
    ELSE <<"Multi-character word, often compound meaning">>

populate_card_fields(n) ==
    LET types == Elems(n.selected_card_types)
        n1 == [n EXCEPT !.word_pinyin = generate_pinyin(n.word),
                        !.example_sentence_pinyin = generate_pinyin(n.example_sentence)]
        cloze == generate_cloze_sentence(n.example_sentence, n.word)
        n2 == IF 2 \in types \/ 3 \in types
              THEN [n1 EXCEPT !.cloze_sentence = cloze,
                              !.cloze_sentence_pinyin = generate_pinyin(cloze)]
              ELSE n1
        n3 == IF 3 \in types
              THEN [n2 EXCEPT !.prompt = generate_prompt(n.word, n.example_sentence)]
              ELSE n2
        scrambled == generate_scrambled_sentence(n.example_sentence, n.word)
        n4 == IF 4 \in types
              THEN [n3 EXCEPT !.scrambled_sentence = scrambled,
                              !.scrambled_sentence_pinyin = generate_pinyin(scrambled)]
              ELSE n3
        n5 == IF 5 \in types
              THEN [n4 EXCEPT !.reconstructed_sentence = n.example_sentence,
                              !.reconstructed_sentence_pinyin = n1.example_sentence_pinyin]
              ELSE n4
    IN  n5

-----------------------------------------------------------------------------
(* Bounds and inputs *)

MaxWordLen == 2
MaxSentenceLen == 2
MaxClozeLen == 4
MaxLines == 2
MaxOutput == 2
MaxToggles == 1
MaxEdits == 1
MaxLoads == 2

\* the sequences over S of length at most n
SeqsUpTo(S, n) == UNION {[1..k -> S] : k \in 0..n}

\* a run of k filler characters
RECURSIVE Filler(_)
Filler(k) == IF k = 0 THEN <<>> ELSE <<jia>> \o Filler(k - 1)

\* filler lengths that take a short sentence across the thresholds of
\* lines 120, 146 and 152 (10 and 15 characters)
PadLens == {0, 9, 10, 14}

AllTypeLists == {SortedList(S) : S \in SUBSET (1..5)}

(* the records suggest_card_types is applied to *)
SuggestWords == SeqsUpTo({shi, dan, ba, SP}, MaxWordLen)
SuggestSentences ==
    {s \o Filler(k) : s \in SeqsUpTo({zhe, shi, dan, ba, COMMA, DUN}, MaxSentenceLen),
                      k \in PadLens}
SuggestImages == {<<>>, <<"i.jpg">>}

(* the records populate_card_fields is applied to *)
PopulateWords == SeqsUpTo({ba, shi, US}, MaxWordLen)
PopulateSentences == SeqsUpTo({ba, wo, US}, MaxClozeLen)

\* the state of the GUI before any file is selected (lines 257-264)
None == 0

GuiInit ==
    /\ heap = <<>>
    /\ input_notes = <<>>
    /\ output_notes = <<>>
    /\ current_note_index = 0
    /\ current_note = None
    /\ card_type_vars = [i \in 1..5 |-> FALSE]
    /\ pinyin_entry = <<>>
    /\ prompt_entry = <<>>
    /\ preview = <<>>
    /\ input_file = <<>>
    /\ loaded_from = <<>>
    /\ output_file = <<>>
    /\ toggles = 0
    /\ edits = 0
    /\ loads = 0
    /\ last_op = "__init__"

-----------------------------------------------------------------------------
(* AnkiCardGUI: the handlers *)

\* lines 498-510: the note of a line's fields, with its suggested types
NewNote(fields) ==
    [AnkiNote(fields) EXCEPT !.selected_card_types = suggest_card_types(AnkiNote(fields))]

\* a short line ends the loop (break) instead of being skipped
OnShortLineBreak(rest) == <<>>

\* lines 494-496: a short line is skipped and the loop goes on (continue)
OnShortLine(rest) == rest

\* the loop of load_input_file (lines 488-512): the notes parsed from the
\* lines, each with the line_num of its line
RECURSIVE ParseLines(_, _)
ParseLines(lines, line_num) ==
    IF lines = <<>> THEN <<>>
    ELSE LET line == Strip(Head(lines))
             fields == Split(line, TAB)
             rest == ParseLines(Tail(lines), line_num + 1)
         IN  IF line = <<>> THEN rest
             ELSE IF Len(fields) < 8 THEN OnShortLine(rest)
             ELSE <<[line_num |-> line_num, note |-> NewNote(fields)]>> \o rest

\* the 17 fields with the 9 derived fields first
OutputFieldsDerivedFirst(n) ==
    <<n.cloze_sentence, n.cloze_sentence_pinyin, n.scrambled_sentence,
      n.scrambled_sentence_pinyin, n.reconstructed_sentence,
      n.reconstructed_sentence_pinyin, n.prompt, n.word_pinyin,
      n.example_sentence_pinyin>> \o OriginalFields(n)

\* lines 733-751: the 17 fields of an output line
OutputFields(n) ==
    OriginalFields(n) \o
    <<n.cloze_sentence, n.cloze_sentence_pinyin, n.scrambled_sentence,
      n.scrambled_sentence_pinyin, n.reconstructed_sentence,
      n.reconstructed_sentence_pinyin, n.prompt, n.word_pinyin,
      n.example_sentence_pinyin>>

\* write_output_file: one line per output note
write_output_file(h, out) ==
    [i \in 1..Len(out) |-> Join(OutputFields(h[out[i]]), <<TAB>>) \o <<NL>>]

\* lines 584-604: the copy generate_preview makes, overridden and populated
preview_note(n, pinyin, prompt) ==
    populate_card_fields(
        [AnkiNote(OriginalFields(n)) EXCEPT
            !.selected_card_types = n.selected_card_types,
            !.word_pinyin = pinyin,
            !.prompt = prompt])

\* load_current_note for the notes h, the list inp and the index idx
load_current_note(h, inp, idx) ==
    IF inp = <<>> \/ idx >= Len(inp)
    THEN UNCHANGED <<current_note, card_type_vars, pinyin_entry, prompt_entry, preview>>
    ELSE /\ current_note' = inp[idx + 1]
         /\ card_type_vars' =
                [i \in 1..5 |-> i \in Elems(h[inp[idx + 1]].selected_card_types)]
         /\ pinyin_entry' = <<>>
         /\ prompt_entry' = <<>>
         /\ preview' = <<preview_note(h[inp[idx + 1]], <<>>, <<>>)>>

\* the text of a line from its fields
LineOf(fields) == Join(fields, <<TAB>>) \o <<NL>>

sentence_home == <<wo, ba, ba, zai, jia, JU>>

\* the end-to-end line of the specification: 8 fields, the second
\* definition and the three media references empty
LineEndToEnd ==
    LineOf(<< <<ba, ba>>, <<"father">>, <<>>, sentence_home,
              <<"My father is home.">>, <<>>, <<>>, <<>> >>)

\* 8 fields, all media references present
LineFull ==
    LineOf(<< <<ba, ba>>, <<"father">>, <<>>, sentence_home,
              <<"My father is home.">>, <<"w.mp3">>, <<"s.mp3">>, <<"i.jpg">> >>)

\* 9 fields, the word empty
LineNoWord9 ==
    LineOf(<< <<>>, <<"father">>, <<>>, sentence_home,
              <<"My father is home.">>, <<"w.mp3">>, <<"s.mp3">>, <<"i.jpg">>,
              <<"x">> >>)

\* 7 fields
LineShort ==
    LineOf(<< <<ba, ba>>, <<"father">>, <<>>, sentence_home,
              <<"My father is home.">>, <<"w.mp3">>, <<"s.mp3">> >>)

\* 9 fields, no media reference, a sentence with the prefix of line 154
LineExtra ==
    LineOf(<< <<ba, ba>>, <<"father">>, <<>>, <<zhe, shi, ba, ba, JU>>,
              <<"This is father.">>, <<>>, <<>>, <<>>, <<"x">> >>)

LineBlank == <<NL>>

\* the lines of the files load_input_file is applied to
InputLines ==
    {LineEndToEnd, LineFull, LineExtra, LineNoWord9, LineShort, LineBlank}

InputFiles == SeqsUpTo(InputLines, MaxLines)

\* the lines of the files the user reviews
ReviewLines == {LineFull, LineExtra}

ReviewFiles == SeqsUpTo(ReviewLines, MaxLines)

\* what the user may type into the two entries
PinyinTexts == {<<>>, <<"b", "a", "4">>}
PromptTexts == {<<>>, <<"my hint">>}

\* the result of the loop of load_input_file for each of the files above,
\* worked out once: it depends on the lines of the file alone
ParsedInputFiles == [lines \in InputFiles |-> ParseLines(lines, 1)]

\* the notes load_input_file parses from the lines of a file
load_input_file(lines) ==
    IF lines \in InputFiles THEN ParsedInputFiles[lines] ELSE ParseLines(lines, 1)

\* load_input_file, update_progress_display and load_current_note for the
\* lines of the selected file (lines 475-478).  Of the objects of the previous load only the
\* one current_note refers to can stay alive (when no note is loaded).
LoadFile(lines) ==
    \E parsed \in {load_input_file(lines)} :
    \E notes \in {[i \in 1..Len(parsed) |-> parsed[i].note]} :
        /\ loaded_from' = [i \in 1..Len(parsed) |-> parsed[i].line_num]
        /\ output_notes' = <<>>
        /\ current_note_index' = 0
        /\ input_notes' = [i \in 1..Len(notes) |-> i]
        /\ IF notes = <<>>
           THEN /\ heap' = IF current_note = None THEN <<>> ELSE <<heap[current_note]>>
                /\ current_note' = IF current_note = None THEN None ELSE 1
                /\ UNCHANGED <<card_type_vars, pinyin_entry, prompt_entry, preview>>
           ELSE /\ heap' = notes
                /\ load_current_note(notes, input_notes', 0)

\* select_input_file for one of the files
SelectInputFile(files) ==
    /\ loads < MaxLoads
    /\ \E lines \in files : input_file' = lines /\ LoadFile(lines)
    /\ output_file' = <<>>
    /\ loads' = loads + 1
    /\ last_op' = "select_input_file"
    /\ UNCHANGED <<toggles, edits>>

\* select_input_file for a file the user reviews
select_input_file == SelectInputFile(ReviewFiles)

\* select_input_file for any file
select_any_file == SelectInputFile(InputFiles)

\* select_input_file for the file save_output wrote last
select_saved_file ==
    /\ loads < MaxLoads
    /\ output_file # <<>>
    /\ input_file' = output_file
    /\ LoadFile(output_file)
    /\ output_file' = <<>>
    /\ loads' = loads + 1
    /\ last_op' = "select_saved_file"
    /\ UNCHANGED <<toggles, edits>>

\* a click on checkbox i: the variable flips, then on_card_type_change runs
on_card_type_change ==
    /\ toggles < MaxToggles
    /\ \E i \in 1..5 :
        /\ card_type_vars' = [card_type_vars EXCEPT ![i] = ~card_type_vars[i]]
        /\ IF current_note # None
           THEN /\ heap' = [heap EXCEPT ![current_note].selected_card_types =
                                SortedList({k \in 1..5 : card_type_vars'[k]})]
                /\ preview' = <<preview_note(heap'[current_note], pinyin_entry, prompt_entry)>>
           ELSE UNCHANGED <<heap, preview>>
    /\ toggles' = toggles + 1
    /\ last_op' = "on_card_type_change"
    /\ UNCHANGED <<input_notes, output_notes, current_note_index, current_note,
                   pinyin_entry, prompt_entry, input_file, loaded_from, output_file,
                   edits, loads>>

\* generate_preview's effect (lines 578-607)
GeneratePreview ==
    /\ preview' = IF current_note = None THEN preview
                  ELSE <<preview_note(heap[current_note], pinyin_entry, prompt_entry)>>
    /\ UNCHANGED <<heap, input_notes, output_notes, current_note_index, current_note,
                   card_type_vars, pinyin_entry, prompt_entry, input_file,
                   loaded_from, output_file, toggles, edits, loads>>

\* the Generate Preview button
generate_preview == GeneratePreview /\ last_op' = "generate_preview"

\* the Regenerate All button
regenerate_content == GeneratePreview /\ last_op' = "regenerate_content"

\* the user edits the Word Pinyin entry
edit_pinyin_entry ==
    /\ edits < MaxEdits
    /\ edits' = edits + 1
    /\ \E text \in PinyinTexts : text # pinyin_entry /\ pinyin_entry' = text
    /\ last_op' = "edit_pinyin_entry"
    /\ UNCHANGED <<heap, input_notes, output_notes, current_note_index, current_note,
                   card_type_vars, prompt_entry, preview, input_file, loaded_from,
                   output_file, toggles, loads>>

\* the user edits the Custom Prompt entry
edit_prompt_entry ==
    /\ edits < MaxEdits
    /\ edits' = edits + 1
    /\ \E text \in PromptTexts : text # prompt_entry /\ prompt_entry' = text
    /\ last_op' = "edit_prompt_entry"
    /\ UNCHANGED <<heap, input_notes, output_notes, current_note_index, current_note,
                   card_type_vars, pinyin_entry, preview, input_file, loaded_from,
                   output_file, toggles, loads>>

\* NextNote with the test of line 683 as <= len(input_notes) - 1
NextNotePastEnd(h) ==
    IF current_note_index <= Len(input_notes) - 1
    THEN /\ current_note_index' = current_note_index + 1
         /\ load_current_note(h, input_notes, current_note_index + 1)
    ELSE UNCHANGED <<current_note_index, current_note, card_type_vars,
                     pinyin_entry, prompt_entry, preview>>

\* next_note's body (lines 683-688) over the notes h
NextNote(h) ==
    IF current_note_index < Len(input_notes) - 1
    THEN /\ current_note_index' = current_note_index + 1
         /\ load_current_note(h, input_notes, current_note_index + 1)
    ELSE UNCHANGED <<current_note_index, current_note, card_type_vars,
                     pinyin_entry, prompt_entry, preview>>

\* the overrides alone, the generated content left out
FinalNoteOverridesOnly(n) ==
    [n EXCEPT !.word_pinyin = IF pinyin_entry # <<>> THEN pinyin_entry ELSE @,
              !.prompt = IF prompt_entry # <<>> THEN prompt_entry ELSE @]

\* lines 665-672: the overrides, then populate_card_fields on the note itself
FinalNote(n) ==
    populate_card_fields(
        [n EXCEPT !.word_pinyin = IF pinyin_entry # <<>> THEN pinyin_entry ELSE @,
                  !.prompt = IF prompt_entry # <<>> THEN prompt_entry ELSE @])

accept_note ==
    /\ Len(output_notes) < MaxOutput
    /\ IF current_note = None
       THEN UNCHANGED <<heap, output_notes, current_note_index, current_note,
                        card_type_vars, pinyin_entry, prompt_entry, preview>>
       ELSE /\ heap' = [heap EXCEPT ![current_note] = FinalNote(@)]
            /\ output_notes' = Append(output_notes, current_note)
            /\ NextNote(heap')
    /\ last_op' = "accept_note"
    /\ UNCHANGED <<input_notes, input_file, loaded_from, output_file, toggles, edits, loads>>

next_note ==
    /\ NextNote(heap)
    /\ last_op' = "next_note"
    /\ UNCHANGED <<heap, input_notes, output_notes, input_file, loaded_from,
                   output_file, toggles, edits, loads>>

\* skip_note that records the note like accept_note does
skip_note_recording ==
    /\ current_note # None
    /\ output_notes' = Append(output_notes, current_note)
    /\ NextNote(heap)
    /\ last_op' = "skip_note"
    /\ UNCHANGED <<heap, input_notes, input_file, loaded_from, output_file, toggles, edits, loads>>

skip_note ==
    /\ NextNote(heap)
    /\ last_op' = "skip_note"
    /\ UNCHANGED <<heap, input_notes, output_notes, input_file, loaded_from,
                   output_file, toggles, edits, loads>>

previous_note ==
    /\ IF current_note_index > 0
       THEN /\ current_note_index' = current_note_index - 1
            /\ load_current_note(heap, input_notes, current_note_index - 1)
       ELSE UNCHANGED <<current_note_index, current_note, card_type_vars,
                        pinyin_entry, prompt_entry, preview>>
    /\ last_op' = "previous_note"
    /\ UNCHANGED <<heap, input_notes, output_notes, input_file, loaded_from,
                   output_file, toggles, edits, loads>>

\* save_output: nothing is written when there is no output note
save_output ==
    /\ output_file' = IF output_notes = <<>> THEN output_file
                      ELSE write_output_file(heap, output_notes)
    /\ last_op' = "save_output"
    /\ UNCHANGED <<heap, input_notes, output_notes, current_note_index, current_note,
                   card_type_vars, pinyin_entry, prompt_entry, preview, input_file,
                   loaded_from, toggles, edits, loads>>

\* no function is applied on its own in the review loop
NoNote == AnkiNote(<<<<>>, <<>>, <<>>, <<>>, <<>>, <<>>, <<>>, <<>>>>)

\* the variables of the function-level specifications
fn_vars == <<the_note, applied, fn_args, fn_result>>

\* no function of the other scripts is applied
NoCall == fn_args = <<>> /\ fn_result = <<>>

\* the image-approval pipeline of main.py is not running
NoPipeline ==
    /\ state_manager = <<>>
    /\ approval_gui = <<>>
    /\ fetch_threads = <<>>
    /\ after_queue = 0

Init == GuiInit /\ the_note = NoNote /\ applied = "none" /\ NoCall /\ NoPipeline

(* The review loop: every handler but Save All *)

Next ==
    \/ select_input_file /\ UNCHANGED <<fn_vars, img_vars>>
    \/ on_card_type_change /\ UNCHANGED <<fn_vars, img_vars>>
    \/ generate_preview /\ UNCHANGED <<fn_vars, img_vars>>
    \/ regenerate_content /\ UNCHANGED <<fn_vars, img_vars>>
    \/ edit_pinyin_entry /\ UNCHANGED <<fn_vars, img_vars>>
    \/ edit_prompt_entry /\ UNCHANGED <<fn_vars, img_vars>>
    \/ accept_note /\ UNCHANGED <<fn_vars, img_vars>>
    \/ next_note /\ UNCHANGED <<fn_vars, img_vars>>
    \/ skip_note /\ UNCHANGED <<fn_vars, img_vars>>
    \/ previous_note /\ UNCHANGED <<fn_vars, img_vars>>

Spec == Init /\ [][Next]_vars

(* Export and re-import: a file is loaded, its notes are accepted with   *)
(* any selection, the output is saved and the saved file is loaded       *)

NextExport ==
    \/ select_input_file /\ UNCHANGED <<fn_vars, img_vars>>
    \/ on_card_type_change /\ UNCHANGED <<fn_vars, img_vars>>
    \/ accept_note /\ UNCHANGED <<fn_vars, img_vars>>
    \/ save_output /\ UNCHANGED <<fn_vars, img_vars>>
    \/ select_saved_file /\ UNCHANGED <<fn_vars, img_vars>>

SpecExport == Init /\ [][NextExport]_vars

(* load_input_file applied to any file *)

NextLoad == select_any_file /\ UNCHANGED <<fn_vars, img_vars>>

SpecLoad == Init /\ [][NextLoad]_vars

-----------------------------------------------------------------------------
(* CardTypeHeuristics.suggest_card_types applied to any record *)

InitSuggest ==
    /\ GuiInit
    /\ NoPipeline
    /\ NoCall
    /\ applied = "none"
    /\ \E w \in SuggestWords, s \in SuggestSentences, img \in SuggestImages :
           the_note = AnkiNote(<<w, <<"def">>, <<>>, s, <<"tr">>, <<>>, <<>>, img>>)

ApplySuggest ==
    /\ applied = "none"
    /\ the_note' = [the_note EXCEPT !.selected_card_types = suggest_card_types(the_note)]
    /\ applied' = "suggest_card_types"
    /\ UNCHANGED <<gui_vars, img_vars, fn_args, fn_result>>

SpecSuggest == InitSuggest /\ [][ApplySuggest]_vars

(* ContentGenerator.populate_card_fields applied to any record and selection *)

InitPopulate ==
    /\ GuiInit
    /\ NoPipeline
    /\ NoCall
    /\ applied = "none"
    /\ \E w \in PopulateWords, s \in PopulateSentences, t \in AllTypeLists :
           the_note = [AnkiNote(<<w, <<"def">>, <<>>, s, <<"tr">>, <<>>, <<>>, <<>>>>)
                       EXCEPT !.selected_card_types = t]

ApplyPopulate ==
    /\ applied = "none"
    /\ the_note' = populate_card_fields(the_note)
    /\ applied' = "populate_card_fields"
    /\ UNCHANGED <<gui_vars, img_vars, fn_args, fn_result>>

SpecPopulate == InitPopulate /\ [][ApplyPopulate]_vars

-----------------------------------------------------------------------------
(* The romanizers: pinyin_with_tone of src/python/main.py, its styled copy *)
(* of src/python/test2.py and PinyinDeckGenerator.format_pinyin           *)

u_umlaut == "U00FC"

\* s.replace(w, r) for a non-empty w: every occurrence, from the left
RECURSIVE ReplaceAll(_, _, _)
ReplaceAll(s, w, r) ==
    IF In(w, s)
    THEN SubSeq(s, 1, Find(w, s) - 1) \o r \o ReplaceAll(From(s, Find(w, s) + Len(w)), w, r)
    ELSE s

\* c.lower() for the letters of the model
Lower(c) ==
    CASE c = "A" -> "a" [] c = "E" -> "e" [] c = "I" -> "i" [] c = "O" -> "o"
      [] c = "U" -> "u" [] c = "U00DC" -> u_umlaut [] OTHER -> c

\* c.isupper() for the letters of the model
IsUpper(c) == Lower(c) # c

\* s.lower()
LowerStr(s) == [i \in 1..Len(s) |-> Lower(s[i])]

\* the vowel that carries the mark, then its marks for the tones 1 to 4
TONE_MAP ==
    ("a" :> <<"U0101", "U00E1", "U01CE", "U00E0">>)
    @@ ("e" :> <<"U0113", "U00E9", "U011B", "U00E8">>)
    @@ ("i" :> <<"U012B", "U00ED", "U01D0", "U00EC">>)
    @@ ("o" :> <<"U014D", "U00F3", "U01D2", "U00F2">>)
    @@ ("u" :> <<"U016B", "U00FA", "U01D4", "U00F9">>)
    @@ (u_umlaut :> <<"U01D6", "U01D8", "U01DA", "U01DC">>)

\* the upper case of the marks, in the order of TONE_MAP
UPPER_MARKS ==
    ("a" :> <<"U0100", "U00C1", "U01CD", "U00C0">>)
    @@ ("e" :> <<"U0112", "U00C9", "U011A", "U00C8">>)
    @@ ("i" :> <<"U012A", "U00CD", "U01CF", "U00CC">>)
    @@ ("o" :> <<"U014C", "U00D3", "U01D1", "U00D2">>)
    @@ ("u" :> <<"U016A", "U00DA", "U01D3", "U00D9">>)
    @@ (u_umlaut :> <<"U01D5", "U01D7", "U01D9", "U01DB">>)

\* vowels = 'aeiouü'
vowels == {"a", "e", "i", "o", "u", u_umlaut}

\* the order in which e, o and a are looked for
MarkOrderEOA == <<"e", "o", "a">>

\* for v in 'aoe'
MarkOrder == <<"a", "o", "e">>

\* the first letter of order that is in the syllable, "" when none is
RECURSIVE FirstPresent(_, _)
FirstPresent(order, syllable) ==
    IF order = <<>> THEN ""
    ELSE IF In(<<Head(order)>>, syllable) THEN Head(order)
    ELSE FirstPresent(Tail(order), syllable)

\* the largest index of a vowel of the syllable, 0 when there is none
LastVowel(syllable) ==
    IF \E i \in 1..Len(syllable) : syllable[i] \in vowels
    THEN CHOOSE i \in 1..Len(syllable) :
             /\ syllable[i] \in vowels
             /\ \A j \in (i + 1)..Len(syllable) : syllable[j] \notin vowels
    ELSE 0

\* syllable[:idx] + mark + syllable[idx+1:] for a 1-based idx
Put(syllable, idx, mark) == SubSeq(syllable, 1, idx - 1) \o mark \o From(syllable, idx + 1)

\* a syllable without a vowel comes back with a question mark
NoVowelFlagged(syllable) == syllable \o <<"?">>

\* line 44: a syllable without a vowel is returned as it is
NoVowel(syllable) == syllable

\* returns its argument, 'uu' included
pinyin_with_tone_as_given(syllable0, tone) == syllable0

\* pinyin_with_tone of src/python/main.py
pinyin_with_tone(syllable0, tone) ==
    LET syllable == ReplaceAll(syllable0, <<"u", "u">>, <<u_umlaut>>)
        v == FirstPresent(MarkOrder, syllable)
        last == LastVowel(syllable)
    IN  IF tone = 5 \/ tone = 0 THEN syllable
        ELSE IF v # ""
        THEN Put(syllable, Find(<<v>>, syllable), <<TONE_MAP[v][tone]>>)
        ELSE IF In(<<"i", "u">>, syllable)
        THEN Put(syllable, Find(<<"u">>, syllable), <<TONE_MAP["u"][tone]>>)
        ELSE IF In(<<"u", "i">>, syllable)
        THEN Put(syllable, Find(<<"i">>, syllable), <<TONE_MAP["i"][tone]>>)
        ELSE IF last # 0
        THEN Put(syllable, last, <<TONE_MAP[syllable[last]][tone]>>)
        ELSE NoVowel(syllable)

\* the tags of src/python/test2.py: <span class="t{tone}"> and </span>
SpanClass(tone) ==
    CASE tone = 1 -> "<span class=\"t1\">" [] tone = 2 -> "<span class=\"t2\">"
      [] tone = 3 -> "<span class=\"t3\">" [] tone = 4 -> "<span class=\"t4\">"

SPAN_END == "</span>"

\* a mark within the tags of test2.py
Classed(mark, tone) == <<SpanClass(tone), mark, SPAN_END>>

\* pinyin_with_tone of src/python/test2.py
test2_pinyin_with_tone(syllable, tone) ==
    LET display == ReplaceAll(syllable, <<"u", "u">>, <<u_umlaut>>)
        v == FirstPresent(<<"a", "o", "e">>, display)
        last == LastVowel(display)
    IN  IF tone = 5 \/ tone = 0 THEN display
        ELSE IF v # ""
        THEN Put(display, Find(<<v>>, display), Classed(TONE_MAP[v][tone], tone))
        ELSE IF In(<<"i", "u">>, display)
        THEN Put(display, Find(<<"u">>, display), Classed(TONE_MAP["u"][tone], tone))
        ELSE IF In(<<"u", "i">>, display)
        THEN Put(display, Find(<<"i">>, display), Classed(TONE_MAP["i"][tone], tone))
        ELSE IF last # 0
        THEN Put(display, last, Classed(TONE_MAP[display[last]][tone], tone))
        ELSE display

\* the tags of format_pinyin: <span style="color: {TONE_COLORS[tone]}">
SpanColor(tone) ==
    CASE tone = 1 -> "<span style=\"color: #e33737\">"
      [] tone = 2 -> "<span style=\"color: #e39c37\">"
      [] tone = 3 -> "<span style=\"color: #5cb85c\">"
      [] tone = 4 -> "<span style=\"color: #428bca\">"

\* vowels_in_syllable: the letters of the syllable that are vowels, in order
vowels_in_syllable(syllable) == SelectSeq(syllable, LAMBDA c : Lower(c) \in vowels)

\* vowel_pairs in the order of its keys: iu, ui, ia, ua
vowel_pairs ==
    << [pair |-> <<"i", "u">>, marked |-> "u"], [pair |-> <<"u", "i">>, marked |-> "i"],
       [pair |-> <<"i", "a">>, marked |-> "a"], [pair |-> <<"u", "a">>, marked |-> "a"] >>

\* lines 146-157: the letter of the syllable that gets the mark
vowel_to_mark(syllable) ==
    LET found == vowels_in_syllable(syllable)
        hits == {k \in 1..Len(vowel_pairs) : In(vowel_pairs[k].pair, LowerStr(syllable))}
        first == CHOOSE k \in hits : \A j \in hits : k <= j
    IN  IF Len(found) = 1 THEN found[1]
        ELSE IF hits # {}
        THEN syllable[Find(<<vowel_pairs[first].marked>>, LowerStr(syllable))]
        ELSE found[1]

\* what a call did: it returned a text or it raised an exception
Returned(text) == [status |-> "returned", text |-> text]
Raised == [status |-> "raised", text |-> <<>>]
Pending == [status |-> "pending", text |-> <<>>]

\* PinyinDeckGenerator.format_pinyin.  With a vowel in the syllable, tone 5
\* is out of the range of the marks (line 169) and tone 0 is not a key of
\* TONE_COLORS (line 174): both raise
format_pinyin(syllable0, tone) ==
    LET syllable == ReplaceAll(syllable0, <<"u", "u">>, <<u_umlaut>>)
        marked == vowel_to_mark(syllable)
        tone_vowel == IF IsUpper(marked) THEN UPPER_MARKS[Lower(marked)][tone]
                      ELSE TONE_MAP[Lower(marked)][tone]
    IN  IF vowels_in_syllable(syllable) = <<>> THEN Returned(syllable)
        ELSE IF tone \notin 1..4 THEN Raised
        ELSE Returned(ReplaceAll(syllable, <<marked>>,
                                 <<SpanColor(tone), tone_vowel, SPAN_END>>))

(* The three romanizers applied to any syllable and tone *)

MaxSyllableLen == 3

\* the letters of the syllables: two consonants, the vowels, an upper-case
\* vowel
SyllableLetters == {"z", "n", "a", "o", "e", "i", "u", u_umlaut, "A"}

Syllables == SeqsUpTo(SyllableLetters, MaxSyllableLen)

\* the tones of the files: 1 to 4, and 0 or 5 for the neutral tone
Tones == 0..5

InitRomanize ==
    /\ GuiInit
    /\ NoPipeline
    /\ the_note = NoNote
    /\ applied = "none"
    /\ \E syllable \in Syllables, tone \in Tones :
           fn_args = [syllable |-> syllable, tone |-> tone]
    /\ fn_result = [main |-> Pending, test2 |-> Pending, decks |-> Pending]

call_pinyin_with_tone ==
    /\ fn_result.main = Pending
    /\ fn_result' = [fn_result EXCEPT
           !.main = Returned(pinyin_with_tone(fn_args.syllable, fn_args.tone))]
    /\ UNCHANGED <<gui_vars, img_vars, the_note, applied, fn_args>>

call_test2_pinyin_with_tone ==
    /\ fn_result.test2 = Pending
    /\ fn_result' = [fn_result EXCEPT
           !.test2 = Returned(test2_pinyin_with_tone(fn_args.syllable, fn_args.tone))]
    /\ UNCHANGED <<gui_vars, img_vars, the_note, applied, fn_args>>

call_format_pinyin ==
    /\ fn_result.decks = Pending
    /\ fn_result' = [fn_result EXCEPT
           !.decks = format_pinyin(fn_args.syllable, fn_args.tone)]
    /\ UNCHANGED <<gui_vars, img_vars, the_note, applied, fn_args>>

NextRomanize ==
    \/ call_pinyin_with_tone
    \/ call_test2_pinyin_with_tone
    \/ call_format_pinyin

SpecRomanize == InitRomanize /\ [][NextRomanize]_vars

-----------------------------------------------------------------------------
(* ExcelToCsvConverter.clean_meaning_text of src/xlsx-to-csv.py *)

STAR == "*"
COLON == ":"
CSEP == ","

\* re.sub(r'\s+', ' ', text): every run of whitespace becomes one space
RECURSIVE CollapseSpaces(_)
CollapseSpaces(text) ==
    IF text = <<>> THEN <<>>
    ELSE IF IsSpace(Head(text))
    THEN <<SP>> \o CollapseSpaces(LStrip(text))
    ELSE <<Head(text)>> \o CollapseSpaces(Tail(text))

\* the alternatives of the prefix pattern, in its order
PREFIXES ==
    << <<"d", "e", "t", ".">>, <<"A", "u", "d", "i", "o">>, <<"a", "d", "j", ".">>,
       <<"a", "d", "v", ".">>, <<"n", ".">>, <<"v", ".">>, <<"p", "r", "e", "p", ".">> >>

\* re.sub(r'^(det\.|...|prep\.):\s*', '', text, flags=re.IGNORECASE)
RemovePrefix(text) ==
    LET hits == {k \in 1..Len(PREFIXES) :
                    /\ Len(text) > Len(PREFIXES[k])
                    /\ LowerStr(SubSeq(text, 1, Len(PREFIXES[k]))) = LowerStr(PREFIXES[k])
                    /\ text[Len(PREFIXES[k]) + 1] = COLON}
        k == CHOOSE h \in hits : \A j \in hits : h <= j
    IN  IF hits = {} THEN text ELSE LStrip(From(text, Len(PREFIXES[k]) + 2))

\* re.sub(r'\*+', '', text)
RemoveStars(text) == SelectSeq(text, LAMBDA c : c # STAR)

\* lines 58-64: the first definition when it has more than 2 characters
FirstDefinition(text) ==
    IF In(<<CSEP>>, text) /\ Len(Strip(Split(text, CSEP)[1])) > 2
    THEN Strip(Split(text, CSEP)[1])
    ELSE text

\* clean_meaning_text for a str (pd.isna is false for a str)
clean_meaning_text(text) ==
    Strip(FirstDefinition(RemoveStars(RemovePrefix(Strip(CollapseSpaces(text))))))

(* clean_meaning_text applied to any text, and to its own result *)

MaxTextLen == 4

\* the characters of the texts: whitespace, an asterisk, a comma, the
\* characters of the prefix 'n.:' and a letter
TextLetters == {SP, TAB, STAR, CSEP, "n", ".", COLON, "x"}

Texts == SeqsUpTo(TextLetters, MaxTextLen)

InitClean ==
    /\ GuiInit
    /\ NoPipeline
    /\ the_note = NoNote
    /\ applied = "none"
    /\ \E text \in Texts : fn_args = [text |-> text]
    /\ fn_result = [once |-> Pending, twice |-> Pending]

\* clean_meaning_text(x)
clean_text ==
    /\ fn_result.once = Pending
    /\ fn_result' = [fn_result EXCEPT !.once = Returned(clean_meaning_text(fn_args.text))]
    /\ UNCHANGED <<gui_vars, img_vars, the_note, applied, fn_args>>

\* clean_meaning_text applied to the text it returned
clean_cleaned_text ==
    /\ fn_result.once # Pending
    /\ fn_result.twice = Pending
    /\ fn_result' = [fn_result EXCEPT !.twice = Returned(clean_meaning_text(fn_result.once.text))]
    /\ UNCHANGED <<gui_vars, img_vars, the_note, applied, fn_args>>

NextClean == clean_text \/ clean_cleaned_text

SpecClean == InitClean /\ [][NextClean]_vars

-----------------------------------------------------------------------------
(* Claims about the heuristics and the generator *)

\* C1: for every record, suggest_card_types returns a non-empty list whose
\* elements are all card types in 1..5.
C1_SuggestNonEmpty ==
    applied = "suggest_card_types" =>
        /\ the_note.selected_card_types # <<>>
        /\ Elems(the_note.selected_card_types) \subseteq 1..5

\* C1 witness: a record no heuristic fires for (blank word, no image, a
\* sentence that starts with the prefix of line 154) got the default.
C1_Witness ==
    /\ applied = "suggest_card_types"
    /\ Strip(the_note.word) = <<>>
    /\ the_note.image = <<>>
    /\ StartsWith(the_note.example_sentence, <<zhe, shi>>)
    /\ the_note.selected_card_types = <<2>>

\* the record has had its fields populated with type 2 or 3 selected
ClozeSelected ==
    /\ applied = "populate_card_fields"
    /\ (2 \in Elems(the_note.selected_card_types)
            \/ 3 \in Elems(the_note.selected_card_types))

\* the cloze sentence holds exactly one blank marker and not the word
OneBlankNoWord ==
    /\ Count(the_note.cloze_sentence, BLANK) = 1
    /\ ~In(the_note.word, the_note.cloze_sentence)

\* a record (its word is not empty) whose word occurs exactly once in its
\* example sentence
OccursOnce ==
    /\ the_note.word # <<>>
    /\ Cardinality(Occurrences(the_note.word, the_note.example_sentence)) = 1

\* C2 as claimed: for any record whose word occurs exactly once in the
\* example sentence, the cloze sentence of types 2 or 3 contains exactly
\* one blank marker and does not contain the word.
C2_AsClaimed == (ClozeSelected /\ OccursOnce) => OneBlankNoWord

\* C2 as amended: the same for any record where neither the word nor the
\* example sentence contains the character '_'.
C2_ClozeOneBlank ==
    (ClozeSelected /\ OccursOnce
        /\ ~In(<<US>>, the_note.word)
        /\ ~In(<<US>>, the_note.example_sentence))
    => OneBlankNoWord

\* C2 witness: a word that occurs once, in the middle of the sentence, was
\* replaced by the blank.
C2_Witness ==
    /\ ClozeSelected
    /\ the_note.word = <<ba>>
    /\ the_note.example_sentence = <<wo, ba, wo>>
    /\ the_note.cloze_sentence = <<wo, US, US, US, wo>>

\* C3 as claimed: when the word does not occur in the example sentence and
\* type 2 or 3 is selected, the cloze sentence is the example sentence with
\* the blank marker appended.
C3_AsClaimed ==
    (ClozeSelected /\ ~In(the_note.word, the_note.example_sentence))
    => the_note.cloze_sentence = the_note.example_sentence \o BLANK

-----------------------------------------------------------------------------
(* Claims about loading and exporting *)

\* the tab-separated fields of a line of a file, its line end taken off
RawFields(line) ==
    Split(IF line # <<>> /\ line[Len(line)] = NL
          THEN SubSeq(line, 1, Len(line) - 1) ELSE line, TAB)

\* the line numbers of the lines that produced a record
LoadedLines == Elems(loaded_from)

\* a line of at least 8 fields whose first and last field are not empty
Solid(line) ==
    /\ Len(RawFields(line)) >= 8
    /\ RawFields(line)[1] # <<>>
    /\ RawFields(line)[Len(RawFields(line))] # <<>>

\* the line of the end-to-end scenario: 8 fields, the second definition and
\* the three media references empty, the word within the sentence
IsEndToEndLine(line) ==
    LET f == RawFields(line)
    IN  /\ Len(f) = 8
        /\ f[1] # <<>> /\ f[2] # <<>> /\ f[3] = <<>>
        /\ In(f[1], f[4]) /\ f[5] # <<>>
        /\ f[6] = <<>> /\ f[7] = <<>> /\ f[8] = <<>>

\* C4 as claimed: a line of the end-to-end shape is loaded as one record,
\* and once accepted with type 2 selected its cloze sentence is the
\* sentence with the word replaced by the blank.
C4_AsClaimed ==
    \A k \in 1..Len(input_file) :
        IsEndToEndLine(input_file[k]) =>
            /\ Cardinality({i \in 1..Len(loaded_from) : loaded_from[i] = k}) = 1
            /\ \A i \in 1..Len(loaded_from) :
                   (/\ loaded_from[i] = k
                    /\ input_notes[i] \in Elems(output_notes)
                    /\ 2 \in Elems(heap[input_notes[i]].selected_card_types))
                   => heap[input_notes[i]].cloze_sentence =
                          ReplaceFirst(RawFields(input_file[k])[4],
                                       RawFields(input_file[k])[1], BLANK)

\* C5: load_input_file does not stop at a malformed line: a line of fewer
\* than 8 fields yields no record, the solid lines around it each yield one
\* with their first 8 fields, and the records keep the order of their lines.
C5_SkipShortLines ==
    /\ Len(loaded_from) = Len(input_notes)
    /\ \A i, j \in 1..Len(loaded_from) : i < j => loaded_from[i] < loaded_from[j]
    /\ LoadedLines \subseteq 1..Len(input_file)
    /\ \A k \in 1..Len(input_file) :
           /\ Len(RawFields(input_file[k])) < 8 => k \notin LoadedLines
           /\ Solid(input_file[k]) => k \in LoadedLines
    /\ \A i \in 1..Len(loaded_from) :
           Solid(input_file[loaded_from[i]]) =>
               OriginalFields(heap[input_notes[i]]) =
                   SubSeq(RawFields(input_file[loaded_from[i]]), 1, 8)

\* C5 witness: a file whose first line is short and whose second line is
\* solid was loaded, and the second line is the only record.
C5_Witness ==
    /\ last_op = "select_input_file"
    /\ input_file = <<LineShort, LineFull>>
    /\ loaded_from = <<2>>
    /\ heap[input_notes[1]].word = <<ba, ba>>

\* C6 as claimed: a line whose first field (the word) is empty never
\* produces a record, and the solid lines of the file are still loaded.
C6_AsClaimed ==
    \A k \in 1..Len(input_file) :
        /\ RawFields(input_file[k])[1] = <<>> => k \notin LoadedLines
        /\ Solid(input_file[k]) => k \in LoadedLines

\* C7: when the file written by write_output_file is loaded again, every
\* line of it has 17 fields, the first 8 being the original fields of the
\* exported record, and yields a record with the same 8 original fields.
C7_RoundTrip ==
    [][last_op' = "select_saved_file" =>
        /\ Len(input_notes') = Len(output_file)
        /\ Len(output_file) <= Len(output_notes)
        /\ \A i \in 1..Len(output_file) :
               /\ Len(RawFields(output_file[i])) = 17
               /\ SubSeq(RawFields(output_file[i]), 1, 8)
                      = OriginalFields(heap[output_notes[i]])
               /\ OriginalFields(heap'[input_notes'[i]])
                      = OriginalFields(heap[output_notes[i]])]_vars

\* C7 witness: a saved file of two records, one of them without any media
\* reference, was loaded again.
C7_Witness ==
    /\ last_op = "select_saved_file"
    /\ Len(input_notes) = 2
    /\ \E i \in 1..2 : heap[input_notes[i]].image = <<>>

-----------------------------------------------------------------------------
(* Claims about the review loop *)

\* the step is a run of accept_note with a record under review
AcceptStep == last_op' = "accept_note" /\ current_note # None

\* accept_note appends the record under review, leaves the earlier
\* elements and every other note as they are, and the record has the
\* derived fields of its selected types
AcceptAppends ==
    /\ output_notes' = Append(output_notes, current_note)
    /\ \A a \in 1..Len(heap) : a # current_note => heap'[a] = heap[a]
    /\ LET before == heap[current_note]
           after == heap'[current_note]
           types == Elems(after.selected_card_types)
       IN  /\ OriginalFields(after) = OriginalFields(before)
           /\ after.selected_card_types = before.selected_card_types
           /\ after.word_pinyin = generate_pinyin(after.word)
           /\ after.example_sentence_pinyin = generate_pinyin(after.example_sentence)
           /\ (2 \in types \/ 3 \in types) =>
                  /\ after.cloze_sentence =
                         ReplaceFirst(after.example_sentence, after.word, BLANK)
                  /\ after.cloze_sentence_pinyin = generate_pinyin(after.cloze_sentence)
           /\ 3 \in types =>
                  after.prompt = generate_prompt(after.word, after.example_sentence)
           /\ 4 \in types =>
                  after.scrambled_sentence_pinyin = generate_pinyin(after.scrambled_sentence)
           /\ 5 \in types =>
                  /\ after.reconstructed_sentence = after.example_sentence
                  /\ after.reconstructed_sentence_pinyin = after.example_sentence_pinyin

\* C8 as claimed: accept_note, called while a record is under review,
\* appends that record with its derived fields as the new last element,
\* leaves the earlier elements in place and advances the cursor.
C8_AsClaimed ==
    [][AcceptStep =>
        /\ AcceptAppends
        /\ current_note_index' = current_note_index + 1]_vars

\* C8 as amended: the same, the cursor advancing when there is a next
\* record and staying where it is on the last record.
C8_AcceptAppends ==
    [][AcceptStep =>
        /\ AcceptAppends
        /\ current_note_index' =
               IF current_note_index < Len(input_notes) - 1
               THEN current_note_index + 1 ELSE current_note_index
        /\ current_note_index < Len(input_notes) - 1 =>
               current_note' = input_notes[current_note_index' + 1]]_vars

\* C8 witness: the first of two records was accepted after a record was
\* already in the output, and the second record is under review.
C8_Witness ==
    /\ last_op = "accept_note"
    /\ Len(output_notes) = 2
    /\ Len(input_notes) = 2
    /\ output_notes[2] = input_notes[1]
    /\ current_note_index = 1
    /\ current_note = input_notes[2]

\* C9: skip_note advances the cursor by one when not on the last record and
\* leaves the output sequence and every field of every note unchanged.
C9_SkipFrame ==
    [][last_op' = "skip_note" =>
        /\ current_note_index < Len(input_notes) - 1 =>
               current_note_index' = current_note_index + 1
        /\ output_notes' = output_notes
        /\ input_notes' = input_notes
        /\ heap' = heap]_vars

\* C9 witness: the first of two records was skipped after a record was
\* accepted.
C9_Witness ==
    /\ last_op = "skip_note"
    /\ output_notes # <<>>
    /\ Len(input_notes) = 2
    /\ current_note_index = 1

\* C10 as claimed: regenerating the current record, with or without a
\* changed type selection, changes neither the cursor nor the output
\* sequence nor any field or selected type set of a record in the output.
C10_AsClaimed ==
    [][last_op' \in {"generate_preview", "regenerate_content", "on_card_type_change"} =>
        /\ current_note_index' = current_note_index
        /\ output_notes' = output_notes
        /\ \A i \in 1..Len(output_notes) :
               heap'[output_notes[i]] = heap[output_notes[i]]]_vars

\* C11 as claimed: once a record is in the output sequence, none of its 17
\* exported fields changes in any later step of the review of the same file
\* (previous, next, skip, type selection, regenerate, edit, accept).
C11_AsClaimed ==
    [][last_op' # "select_input_file" =>
        \A i \in 1..Len(output_notes) :
            OutputFields(heap'[output_notes[i]]) = OutputFields(heap[output_notes[i]])]_vars

\* the derived fields of note n that belong to a card type are empty unless
\* an owning type is among the selected types of n
OwnedFieldsOnly(n) ==
    LET types == Elems(n.selected_card_types)
    IN  /\ (n.cloze_sentence # <<>> \/ n.cloze_sentence_pinyin # <<>>) =>
               (2 \in types \/ 3 \in types)
        /\ (n.scrambled_sentence # <<>> \/ n.scrambled_sentence_pinyin # <<>>) =>
               4 \in types
        /\ (n.reconstructed_sentence # <<>> \/ n.reconstructed_sentence_pinyin # <<>>) =>
               5 \in types
        /\ n.prompt # <<>> => 3 \in types

\* C12 as claimed: in every reachable state every record of the output
\* sequence has a conditional derived field non-empty only if a type that
\* owns the field is among the record's selected types.
C12_AsClaimed ==
    \A i \in 1..Len(output_notes) : OwnedFieldsOnly(heap[output_notes[i]])

\* C13 as claimed: every record of the output sequence has at least one
\* selected card type.
C13_AsClaimed ==
    \A i \in 1..Len(output_notes) :
        heap[output_notes[i]].selected_card_types # <<>>

-----------------------------------------------------------------------------
(* Claims about the romanizers *)

\* the syllable of the call with 'uu' written as u-umlaut
Display == ReplaceAll(fn_args.syllable, <<"u", "u">>, <<u_umlaut>>)

\* the call of pinyin_with_tone has returned, for a tone 1 to 4
MainMarked == fn_result.main.status = "returned" /\ fn_args.tone \in 1..4

\* the positions of a, o and e in Display
AOE == {i \in 1..Len(Display) : Display[i] \in {"a", "o", "e"}}

\* C14 as claimed: for a syllable with an a, o or e and a tone 1 to 4,
\* pinyin_with_tone marks the leftmost character that is an a, o or e and
\* leaves every other character as it is.
C14_AsClaimed ==
    (MainMarked /\ AOE # {}) =>
        LET idx == CHOOSE i \in AOE : \A j \in AOE : i <= j
        IN  fn_result.main.text = Put(Display, idx, <<TONE_MAP[Display[idx]][fn_args.tone]>>)

\* C14 as amended: the mark goes on the first a when the syllable has an a,
\* otherwise on the first o when it has an o, otherwise on the first e;
\* every other character is left as it is.
C14_MarksAThenOThenE ==
    (MainMarked /\ AOE # {}) =>
        LET v == IF In(<<"a">>, Display) THEN "a"
                 ELSE IF In(<<"o">>, Display) THEN "o" ELSE "e"
            idx == CHOOSE i \in AOE : Display[i] = v /\ \A j \in 1..(i - 1) : Display[j] # v
        IN  fn_result.main.text = Put(Display, idx, <<TONE_MAP[v][fn_args.tone]>>)

\* C14 witness: tone 4 of 'zuo' has the mark on the o.
C14_Witness ==
    /\ fn_args = [syllable |-> <<"z", "u", "o">>, tone |-> 4]
    /\ fn_result.main = Returned(<<"z", "u", "U00F2">>)

\* the tags the styled romanizers put around the mark
SpanTags == {SpanClass(t) : t \in 1..4} \cup {SpanColor(t) : t \in 1..4} \cup {SPAN_END}

\* a text with the tags taken out
Unstyled(text) == SelectSeq(text, LAMBDA c : c \notin SpanTags)

\* C15 as claimed: for a syllable without a, o and e and a tone 1 to 4, when
\* the syllable has the pair 'iu' the u of such a pair is the marked
\* character, and otherwise when it has the pair 'ui' the i of such a pair is.
C15_AsClaimed ==
    (MainMarked /\ AOE = {}) =>
        /\ In(<<"i", "u">>, Display) =>
               \E p \in Occurrences(<<"i", "u">>, Display) :
                   fn_result.main.text =
                       Put(Display, p + 1, <<TONE_MAP["u"][fn_args.tone]>>)
        /\ (~In(<<"i", "u">>, Display) /\ In(<<"u", "i">>, Display)) =>
               \E p \in Occurrences(<<"u", "i">>, Display) :
                   fn_result.main.text =
                       Put(Display, p + 1, <<TONE_MAP["i"][fn_args.tone]>>)

\* the marks of all vowels and tones, in both cases
AllMarks ==
    UNION {{TONE_MAP[v][t], UPPER_MARKS[v][t]} : v \in vowels, t \in 1..4}

\* C16: with tone 0 and with tone 5 pinyin_with_tone (and its copy of
\* test2.py) returns the syllable with each 'uu' replaced by u-umlaut, the
\* same text for both tones, and no character of it is a tone-marked vowel.
C16_NeutralTone ==
    fn_args.tone \in {0, 5} =>
        /\ fn_result.main.status = "returned" =>
               /\ fn_result.main.text = Display
               /\ \A i \in 1..Len(fn_result.main.text) :
                      fn_result.main.text[i] \notin AllMarks
        /\ fn_result.test2.status = "returned" =>
               /\ fn_result.test2.text = Display
               /\ \A i \in 1..Len(fn_result.test2.text) :
                      fn_result.test2.text[i] \notin AllMarks \cup SpanTags

\* C16 witness: tone 5 of 'nuu' came back as n, u-umlaut from both.
C16_Witness ==
    /\ fn_args = [syllable |-> <<"n", "u", "u">>, tone |-> 5]
    /\ fn_result.main = Returned(<<"n", u_umlaut>>)
    /\ fn_result.test2 = Returned(<<"n", u_umlaut>>)

\* the syllable of the call has no vowel, in either case
Vowelless == \A i \in 1..Len(fn_args.syllable) : Lower(fn_args.syllable[i]) \notin vowels

\* C17: for a syllable without any of the vowels a, e, i, o, u, u-umlaut
\* (in either case) and any tone 0 to 5, every romanizer that has been
\* called has returned, not raised, and has returned the syllable as given.
C17_NoVowelUnmodified ==
    Vowelless =>
        \A r \in {"main", "test2", "decks"} :
            fn_result[r].status # "pending" => fn_result[r] = Returned(fn_args.syllable)

\* C17 witness: the three romanizers were called with 'zn' and tone 3.
C17_Witness ==
    /\ fn_args = [syllable |-> <<"z", "n">>, tone |-> 3]
    /\ \A r \in {"main", "test2", "decks"} : fn_result[r] = Returned(<<"z", "n">>)

\* the text has the mark of the tone on the vowel at one position of
\* Display, in the case of that vowel, and is Display everywhere else
OneVowelMarked(text) ==
    \E i \in 1..Len(Display) :
        /\ Lower(Display[i]) \in vowels
        /\ text = Put(Display, i,
                      <<IF IsUpper(Display[i])
                        THEN UPPER_MARKS[Lower(Display[i])][fn_args.tone]
                        ELSE TONE_MAP[Display[i]][fn_args.tone]>>)

\* C18 as claimed: for a syllable with a vowel and a tone 1 to 4, the
\* result of pinyin_with_tone and of format_pinyin (its tags taken out) is
\* the syllable with exactly one vowel replaced by its mark for the tone,
\* the case of the letter kept, and every other character unchanged.
C18_AsClaimed ==
    (~Vowelless /\ fn_args.tone \in 1..4) =>
        /\ fn_result.main.status # "pending" =>
               fn_result.main.status = "returned" /\ OneVowelMarked(fn_result.main.text)
        /\ fn_result.decks.status # "pending" =>
               /\ fn_result.decks.status = "returned"
               /\ OneVowelMarked(Unstyled(fn_result.decks.text))

\* C19 as claimed: for every syllable and tone 1 to 4, the output of each
\* styled romanizer with its tags taken out is the output of the unstyled
\* pinyin_with_tone.
C19_AsClaimed ==
    MainMarked =>
        /\ fn_result.test2.status # "pending" =>
               /\ fn_result.test2.status = "returned"
               /\ Unstyled(fn_result.test2.text) = fn_result.main.text
        /\ fn_result.decks.status # "pending" =>
               /\ fn_result.decks.status = "returned"
               /\ Unstyled(fn_result.decks.text) = fn_result.main.text

-----------------------------------------------------------------------------
(* Claims about the text cleaner *)

\* C20 as claimed: clean_meaning_text applied to its own result returns
\* that result: clean(clean(x)) = clean(x) for every text x.
C20_AsClaimed ==
    fn_result.twice.status = "returned" => fn_result.twice.text = fn_result.once.text

-----------------------------------------------------------------------------
(* Further claims about the generator and the heuristics *)

\* the number of positions of s that hold the character c
CharCount(s, c) == Cardinality({i \in 1..Len(s) : s[i] = c})

\* s without the characters of the set S
RECURSIVE Without(_, _)
Without(s, S) ==
    IF s = <<>> THEN <<>>
    ELSE IF Head(s) \in S THEN Without(Tail(s), S)
    ELSE <<Head(s)>> \o Without(Tail(s), S)

\* s keeping only the characters of the set S
RECURSIVE Only(_, _)
Only(s, S) ==
    IF s = <<>> THEN <<>>
    ELSE IF Head(s) \in S THEN <<Head(s)>> \o Only(Tail(s), S)
    ELSE Only(Tail(s), S)

\* a and b hold the same characters, each as many times
IsPermutation(a, b) ==
    /\ Len(a) = Len(b)
    /\ \A c \in Elems(a) \cup Elems(b) : CharCount(a, c) = CharCount(b, c)

Punctuation == {COMMA, DUN, JU}

\* C21 as claimed: with type 4 selected, the scrambled sentence, its
\* separators (spaces) removed, is a permutation of the characters of the
\* example sentence, with the punctuation in its original relative order.
C21_AsClaimed ==
    (applied = "populate_card_fields" /\ 4 \in Elems(the_note.selected_card_types)) =>
        /\ IsPermutation(Without(the_note.scrambled_sentence, {SP}),
                         Without(the_note.example_sentence, {SP}))
        /\ Only(the_note.scrambled_sentence, Punctuation)
               = Only(the_note.example_sentence, Punctuation)

\* the first clause of a definition: the text in front of its first comma
\* or semicolon
FirstClause(d) ==
    LET stops == {i \in 1..Len(d) : d[i] \in {CSEP, ";", COMMA}}
    IN  IF stops = {} THEN d
        ELSE SubSeq(d, 1, (CHOOSE i \in stops : \A j \in stops : i <= j) - 1)

\* C22 as claimed: with type 3 selected, the prompt is the hint of the
\* fixed table when the word is a key of the table, and otherwise the first
\* clause of the record's primary definition.
C22_AsClaimed ==
    (applied = "populate_card_fields" /\ 3 \in Elems(the_note.selected_card_types)) =>
        the_note.prompt = IF the_note.word \in DOMAIN prompts
                          THEN prompts[the_note.word]
                          ELSE FirstClause(the_note.definitions_1)

\* suggest_card_types has been applied to the record
Suggested == applied = "suggest_card_types"

\* the card types suggested for the record
SuggestedTypes == Elems(the_note.selected_card_types)

\* the example sentence is longer than 10 characters and holds a segment
\* break
LongWithBreak ==
    /\ Len(Strip(the_note.example_sentence)) > 10
    /\ \E i \in 1..Len(the_note.example_sentence) :
           the_note.example_sentence[i] \in {COMMA, DUN}

\* C23 as claimed: type 4 is suggested exactly when the example sentence is
\* longer than 10 characters and contains '，' or '、'.
C23_AsClaimed == Suggested => (4 \in SuggestedTypes <=> LongWithBreak)

\* C23 as amended: type 4 is suggested exactly when the word is a function
\* word, or the example sentence is longer than 10 characters and contains
\* '，' or '、'.
C23_Type4 ==
    Suggested =>
        (4 \in SuggestedTypes <=>
            (Strip(the_note.word) \in FUNCTION_WORDS \/ LongWithBreak))

\* C23 witness: a word that is no function word with a sentence of 11
\* characters that holds a comma got type 4.
C23_Witness ==
    /\ Suggested
    /\ the_note.word = <<ba>>
    /\ Len(the_note.example_sentence) = 11
    /\ the_note.example_sentence[1] = COMMA
    /\ 4 \in SuggestedTypes

\* C24 as claimed: type 5 is suggested only for a sentence whose length is
\* within a range with a lower and an upper bound: never for the empty
\* sentence and never for a sentence longer than the upper bound (15).
C24_AsClaimed ==
    Suggested =>
        (5 \in SuggestedTypes =>
            /\ Len(Strip(the_note.example_sentence)) >= 1
            /\ Len(Strip(the_note.example_sentence)) <= 15)

\* the example sentence contains one of the grammar markers
HasMarker ==
    \E pattern \in GRAMMAR_PATTERNS :
        \E i \in 1..Len(the_note.example_sentence) :
            /\ i + Len(pattern) - 1 <= Len(the_note.example_sentence)
            /\ SubSeq(the_note.example_sentence, i, i + Len(pattern) - 1) = pattern

\* C25: type 3 is suggested exactly when the example sentence contains one
\* of the grammar markers, or the word has more than one character and is
\* not a function word.
C25_Type3 ==
    Suggested =>
        (3 \in SuggestedTypes <=>
            \/ HasMarker
            \/ (Len(Strip(the_note.word)) > 1
                    /\ Strip(the_note.word) \notin FUNCTION_WORDS))

\* C25 witness: the function word of two characters '但是' with a sentence
\* free of grammar markers did not get type 3.
C25_Witness ==
    /\ Suggested
    /\ the_note.word = <<dan, shi>>
    /\ the_note.example_sentence = <<ba, COMMA>>
    /\ 3 \notin SuggestedTypes

-----------------------------------------------------------------------------
(* Further claims about the review loop *)

\* C26 as claimed: a custom word pinyin (a custom prompt) entered before
\* accept_note is the word_pinyin (the prompt) of the record that
\* accept_note appends, whatever card types are selected.
C26_AsClaimed ==
    [][AcceptStep =>
        /\ pinyin_entry # <<>> => heap'[current_note].word_pinyin = pinyin_entry
        /\ prompt_entry # <<>> => heap'[current_note].prompt = prompt_entry]_vars

\* C27 as claimed: no record occurs more than once in the output sequence,
\* and the output never holds more records than were loaded.
C27_AsClaimed ==
    /\ \A i, j \in 1..Len(output_notes) : i # j => output_notes[i] # output_notes[j]
    /\ input_notes # <<>> => Len(output_notes) <= Len(heap)

\* C28: whenever a record is loaded, the cursor is within
\* 0..len(input_notes)-1 and the record under review is the one at the
\* cursor.
C28_CursorInRange ==
    input_notes # <<>> =>
        /\ current_note_index \in 0..(Len(input_notes) - 1)
        /\ current_note = input_notes[current_note_index + 1]

\* C28 witness: with two records loaded and one accepted at the end of the
\* list, the user went back to the first record.
C28_Witness ==
    /\ last_op = "previous_note"
    /\ Len(input_notes) = 2
    /\ output_notes = <<input_notes[2]>>
    /\ current_note_index = 0
    /\ current_note = input_notes[1]

-----------------------------------------------------------------------------
(* main.py: the image-approval pipeline (StateManager, ImageApprovalGUI) *)

MaxRows == 2        \* rows of the CSV at most
MaxExtraRows == 1   \* rows appended to the table at most
MaxPhotos == 2      \* photos of a search result at most

DISABLED == "disabled"
NORMAL == "normal"
NaN == 0          \* float("nan"), what pandas puts in a cell never set

\* the table pd.read_csv gives for a CSV of n rows: english_meaning, the
\* search query, differs from row to row
read_csv(n) ==
    [i \in 1..n |-> [english_meaning |-> i, image_path |-> <<>>, approved |-> FALSE]]

\* StateManager.get_current_word: the row at current_index as a list of
\* one element, or the empty list for None
get_current_word(sm) ==
    IF sm.current_index < Len(sm.df) THEN <<sm.df[sm.current_index + 1]>> ELSE <<>>

\* StateManager.update_current_word(**kwargs) without save_csv: df.at sets
\* the columns of the row labelled current_index, and appends a row with
\* that label, NaN in its other columns, when the table has none
update_current_word(sm, kwargs) ==
    LET at == sm.current_index + 1
        old == IF at <= Len(sm.df) THEN sm.df[at]
               ELSE [english_meaning |-> NaN, image_path |-> <<NaN>>, approved |-> NaN]
        new == [c \in DOMAIN old |-> IF c \in DOMAIN kwargs THEN kwargs[c] ELSE old[c]]
    IN  [sm EXCEPT !.df = IF at <= Len(sm.df) THEN [sm.df EXCEPT ![at] = new]
                          ELSE Append(sm.df, new)]

\* StateManager.next_word: the state after it (it returns
\* current_index < len(df))
next_word(sm) == [sm EXCEPT !.current_index = @ + 1]

\* StateManager.get_progress
get_progress(sm) ==
    [total |-> Len(sm.df),
     processed |-> sm.current_index,
     approved |-> Cardinality({i \in 1..Len(sm.df) : sm.df[i].approved = TRUE}),
     remaining |-> Len(sm.df) - sm.current_index]

\* PexelsImageFetcher.search_images(query): what the network may answer, no
\* photo (or a request error) up to MaxPhotos photos found for the query
search_images(query) ==
    {[k \in 1..n |-> [query |-> query, photo |-> k]] : n \in 0..MaxPhotos}

\* load_next_word: the threads after it, a fetch thread started for the
\* current word unless the table is at its end
load_next_word(sm, threads) ==
    IF get_current_word(sm) = <<>> THEN threads
    ELSE [threads EXCEPT ![sm.current_index + 1] = "search"]

\* update_image_display: the states of the GUI it may leave for the GUI g
\* (the download of the image it shows succeeds or fails; an index out of
\* the list raises)
update_image_display(g) ==
    IF g.current_images = <<>> THEN {[g EXCEPT !.use_image_btn = DISABLED]}
    ELSE IF g.current_image_index >= Len(g.current_images) THEN {g}
    ELSE {g,
          [g EXCEPT !.prev_img_btn = IF g.current_image_index > 0
                                     THEN NORMAL ELSE DISABLED,
                    !.next_img_btn = IF g.current_image_index < Len(g.current_images) - 1
                                     THEN NORMAL ELSE DISABLED,
                    !.use_image_btn = NORMAL]}

\* the variables of the card review GUI but last_op
gui_rest == <<heap, input_notes, output_notes, current_note_index, current_note,
              card_type_vars, pinyin_entry, prompt_entry, preview, input_file,
              loaded_from, output_file, toggles, edits, loads>>

\* no other script runs beside the pipeline
OnlyPipeline == UNCHANGED <<gui_rest, fn_vars>>

\* StateManager(csv_path) and ImageApprovalGUI.__init__ (which ends with
\* load_next_word) for a CSV of up to MaxRows rows
InitPipeline ==
    /\ GuiInit
    /\ the_note = NoNote
    /\ applied = "none"
    /\ NoCall
    /\ \E n \in 0..MaxRows :
        /\ state_manager = [df |-> read_csv(n), current_index |-> 0]
        /\ fetch_threads =
               load_next_word(state_manager, [i \in 1..MaxRows |-> "none"])
    /\ approval_gui = [current_images |-> <<>>, current_image_index |-> 0,
                       prev_img_btn |-> DISABLED, next_img_btn |-> DISABLED,
                       use_image_btn |-> DISABLED]
    /\ after_queue = 0

\* the fetch thread of row q, line 337: the search, its result assigned to
\* self.current_images
fetch_images_search ==
    /\ \E q \in 1..MaxRows :
        /\ fetch_threads[q] = "search"
        /\ \E photos \in search_images(q) :
               approval_gui' = [approval_gui EXCEPT !.current_images = photos]
        /\ fetch_threads' = [fetch_threads EXCEPT ![q] = "index"]
    /\ last_op' = "fetch_images"
    /\ UNCHANGED <<state_manager, after_queue>>
    /\ OnlyPipeline

\* the fetch thread of row q, line 338
fetch_images_index ==
    /\ \E q \in 1..MaxRows :
        /\ fetch_threads[q] = "index"
        /\ fetch_threads' = [fetch_threads EXCEPT ![q] = "after"]
    /\ approval_gui' = [approval_gui EXCEPT !.current_image_index = 0]
    /\ last_op' = "fetch_images"
    /\ UNCHANGED <<state_manager, after_queue>>
    /\ OnlyPipeline

\* the fetch thread of row q, line 341, after which the thread ends
fetch_images_after ==
    /\ \E q \in 1..MaxRows :
        /\ fetch_threads[q] = "after"
        /\ fetch_threads' = [fetch_threads EXCEPT ![q] = "done"]
    /\ after_queue' = after_queue + 1
    /\ last_op' = "fetch_images"
    /\ UNCHANGED <<state_manager, approval_gui>>
    /\ OnlyPipeline

\* the main loop runs a queued update_image_display
run_update_image_display ==
    /\ after_queue > 0
    /\ after_queue' = after_queue - 1
    /\ approval_gui' \in update_image_display(approval_gui)
    /\ last_op' = "update_image_display"
    /\ UNCHANGED <<state_manager, fetch_threads>>
    /\ OnlyPipeline

\* a click on the Previous button
prev_image ==
    /\ approval_gui.prev_img_btn = NORMAL
    /\ IF approval_gui.current_image_index > 0
       THEN approval_gui' \in update_image_display(
                [approval_gui EXCEPT !.current_image_index = @ - 1])
       ELSE UNCHANGED approval_gui
    /\ last_op' = "prev_image"
    /\ UNCHANGED <<state_manager, fetch_threads, after_queue>>
    /\ OnlyPipeline

\* a click on the Next button
next_image ==
    /\ approval_gui.next_img_btn = NORMAL
    /\ IF approval_gui.current_image_index < Len(approval_gui.current_images) - 1
       THEN approval_gui' \in update_image_display(
                [approval_gui EXCEPT !.current_image_index = @ + 1])
       ELSE UNCHANGED approval_gui
    /\ last_op' = "next_image"
    /\ UNCHANGED <<state_manager, fetch_threads, after_queue>>
    /\ OnlyPipeline

\* lines 427-431 and 439-443: next_word, then load_next_word if it
\* returned True
AdvanceWord(sm) ==
    /\ state_manager' = next_word(sm)
    /\ fetch_threads' = load_next_word(state_manager', fetch_threads)

\* a click on the Use This Image button: nothing happens without images,
\* the handler raises when the index is out of the list or there is no
\* current word, and the download succeeds or fails
use_current_image ==
    /\ approval_gui.use_image_btn = NORMAL
    /\ \E downloaded \in BOOLEAN :
        IF /\ approval_gui.current_images # <<>>
           /\ approval_gui.current_image_index < Len(approval_gui.current_images)
           /\ get_current_word(state_manager) # <<>>
           /\ downloaded
        THEN AdvanceWord(update_current_word(state_manager,
                 [image_path |-> <<approval_gui.current_images[
                                       approval_gui.current_image_index + 1]>>,
                  approved |-> TRUE]))
        ELSE UNCHANGED <<state_manager, fetch_threads>>
    /\ last_op' = "use_current_image"
    /\ UNCHANGED <<approval_gui, after_queue>>
    /\ OnlyPipeline

\* a click on the Skip Word button
skip_word ==
    /\ Len(state_manager.df) < MaxRows + MaxExtraRows
    /\ AdvanceWord(update_current_word(state_manager, [approved |-> FALSE]))
    /\ last_op' = "skip_word"
    /\ UNCHANGED <<approval_gui, after_queue>>
    /\ OnlyPipeline

\* the file or clipboard image a user supplies
CUSTOM == [query |-> 0, photo |-> 0]

\* use_custom_image and paste_image_from_clipboard with a valid image:
\* process_custom_image, which raises without a current word, disables the
\* image buttons when it can display the image, stores the image and, on
\* the user's answer, moves to the next word
process_custom_image ==
    /\ get_current_word(state_manager) # <<>>
    /\ \E displayed \in BOOLEAN :
           approval_gui' = IF displayed
                           THEN [approval_gui EXCEPT !.prev_img_btn = DISABLED,
                                                     !.next_img_btn = DISABLED,
                                                     !.use_image_btn = DISABLED]
                           ELSE approval_gui
    /\ \E response \in BOOLEAN :
           LET sm == update_current_word(state_manager,
                         [image_path |-> <<CUSTOM>>, approved |-> TRUE])
           IN  IF response THEN AdvanceWord(sm)
               ELSE state_manager' = sm /\ UNCHANGED fetch_threads
    /\ last_op' = "process_custom_image"
    /\ UNCHANGED after_queue
    /\ OnlyPipeline

NextPipeline ==
    \/ fetch_images_search
    \/ fetch_images_index
    \/ fetch_images_after
    \/ run_update_image_display
    \/ prev_image
    \/ next_image
    \/ use_current_image
    \/ skip_word
    \/ process_custom_image

SpecPipeline == InitPipeline /\ [][NextPipeline]_vars

-----------------------------------------------------------------------------
(* Claims about the image-approval pipeline *)

\* C29 as claimed: after every use-image and skip-word action current_index
\* does not exceed the number of rows, get_progress reports
\* processed <= total and remaining >= 0, and the table has as many rows as
\* before.
C29_AsClaimed ==
    [][last_op' \in {"use_current_image", "skip_word"} =>
        /\ state_manager'.current_index <= Len(state_manager'.df)
        /\ get_progress(state_manager').processed <= get_progress(state_manager').total
        /\ get_progress(state_manager').remaining >= 0
        /\ Len(state_manager'.df) = Len(state_manager.df)]_vars

\* C30 as claimed: whenever use_current_image stores an image for the
\* current word, the image list it picks from is the search result for that
\* word's query, and a fetch thread assigns the image list only while the
\* cursor is on the word the fetch was started for.
C30_AsClaimed ==
    [][/\ (last_op' = "use_current_image" /\ state_manager' # state_manager) =>
              \A i \in 1..Len(approval_gui.current_images) :
                  approval_gui.current_images[i].query =
                      state_manager.df[state_manager.current_index + 1].english_meaning
       /\ \A q \in 1..MaxRows :
              (fetch_threads[q] = "search" /\ fetch_threads'[q] = "index") =>
                  q = state_manager.current_index + 1]_vars

=============================================================================
